---- MODULE Spec2Model ----
(***************************************************************************)
(* A model of dockerfile-templater: the template engine helpers `include`  *)
(* and `tpl` with their shared recursion counter (utils), and the variant  *)
(* pipeline Load -> Verify -> Init -> Render (cmd/templater.go).           *)
(***************************************************************************)
EXTENDS Integers, Sequences, FiniteSets, TLC

\* ------------------------------------------------------------------------
\* Bounds of the model
\* ------------------------------------------------------------------------

\* How many times the compiled template is executed in one process.
MaxRuns == 2
\* Largest tree depth carried by the data of a bounded recursive walk.
MaxDepth == 2
\* Largest number of tpl clones alive at once (the code has no such limit).
MaxTplDepth == 3

\* ------------------------------------------------------------------------
\* Program constants
\* ------------------------------------------------------------------------

recursionMaxNums == 1000

\* The text text/template prints for a missing map key: "<no value>".
NoValue == << "<", "n", "o", " ", "v", "a", "l", "u", "e", ">" >>

\* filepath.Base of the primary template file: the root Template's name.
RootName == "Dockerfile.tpl"

\* ------------------------------------------------------------------------
\* Template source: a body is a sequence of instructions
\* ------------------------------------------------------------------------

Text(s) == [op |-> "text", name |-> "", txt |-> s, n |-> 0]
\* {{ .key }}
Field(k) == [op |-> "field", name |-> k, txt |-> <<>>, n |-> 0]
\* {{ include "name" . }}
Inc(nm) == [op |-> "include", name |-> nm, txt |-> <<>>, n |-> 0]
\* {{ include "name" (one level down the tree) }}
IncDec(nm) == [op |-> "include", name |-> nm, txt |-> <<>>, n |-> 1]
\* {{ tpl <text> . }}
Tpl(id) == [op |-> "tpl", name |-> id, txt |-> <<>>, n |-> 0]
\* {{ if <tree has children> }} ... {{ end }}: skips k instructions at a leaf
IfPos(k) == [op |-> "ifpos", name |-> "", txt |-> <<>>, n |-> k]

EmptyMap == [x \in {} |-> <<>>]

\* The named sub-templates of the fragment directories and the main file.
Defines ==
  [ self |-> << Inc("self") >>,
    a    |-> << Inc("b") >>,
    b    |-> << Inc("a") >>,
    walk |-> << Text(<<"(">>), IfPos(2), IncDec("walk"), IncDec("walk"), Text(<<")">>) >>,
    leaf |-> << Text(<<"x">>), Field("k") >>,
    bad  |-> << Text(<<"x">>), Inc("nosuch") >>,
    mix  |-> << IfPos(1), Tpl("TMix"), Inc("mix") >> ]

\* The main bodies a primary template file may hold.
MainBodies ==
  << << Inc("self") >>,
     << Inc("a") >>,
     << Inc("walk") >>,
     << Inc("leaf"), Inc("leaf") >>,
     << Tpl("TDef"), Inc("x") >>,
     << Tpl("TMissing"), Tpl("TSplit"), Tpl("TTwice") >>,
     << Inc("bad") >>,
     << Tpl("TSelfInc") >>,
     << Tpl("TRec") >>,
     << Text(<<"y">>), Tpl("TBadParse") >>,
     << Tpl("TOnlyDefine"), Tpl("TRoot") >>,
     << Inc("mix") >> >>

\* The texts handed to tpl: main body, the define blocks of the text, and
\* whether the text parses.
TplTexts ==
  [ TDef        |-> [main |-> << Inc("x") >>, defs |-> [x |-> << Text(<<"x">>) >>], ok |-> TRUE],
    TMissing    |-> [main |-> << Field("missingKey") >>, defs |-> EmptyMap, ok |-> TRUE],
    TSplit      |-> [main |-> << Text(<<"<", "n", "o", " ">>), Field("missingKey"),
                                 Text(<<"v", "a", "l", "u", "e", ">">>) >>,
                     defs |-> EmptyMap, ok |-> TRUE],
    TTwice      |-> [main |-> << Field("missingKey"), Field("k"), Field("missingKey") >>,
                     defs |-> EmptyMap, ok |-> TRUE],
    TSelfInc    |-> [main |-> << Inc("self") >>, defs |-> EmptyMap, ok |-> TRUE],
    TRec        |-> [main |-> << Tpl("TRec") >>, defs |-> EmptyMap, ok |-> TRUE],
    TBadParse   |-> [main |-> << >>, defs |-> EmptyMap, ok |-> FALSE],
    TOnlyDefine |-> [main |-> << >>, defs |-> [z |-> << Text(<<"x">>) >>], ok |-> TRUE],
    TRoot       |-> [main |-> << Text(<<"x">>), IfPos(1), IncDec(RootName) >>,
                     defs |-> EmptyMap, ok |-> TRUE],
    TMix        |-> [main |-> << IncDec("mix") >>, defs |-> EmptyMap, ok |-> TRUE] ]

\* The values a template is executed against: a tree depth and a map.
DataChoices ==
  { [depth |-> d, m |-> mm] :
      d \in 0..MaxDepth, mm \in { EmptyMap, [k |-> <<"v">>] } }

\* The main bodies that start an unconditional recursion: a sub-template that
\* includes itself, a cycle over two names, the same from a tpl text.
RecursiveMains == {1, 2, 8}

\* The main body whose recursion moves from the root into tpl clones: "mix"
\* calls tpl while the tree has children, and includes itself in any case.
MixedMains == {12}

\* The values main body b is executed against. The unconditional recursions
\* never read their data: the empty value stands for all of them.
InputsOf(b) ==
  IF b \in RecursiveMains THEN { [depth |-> 0, m |-> EmptyMap] }
  ELSE IF b \in MixedMains THEN { [depth |-> d, m |-> EmptyMap] : d \in 1..MaxDepth }
  ELSE DataChoices

\* ------------------------------------------------------------------------
\* State
\* ------------------------------------------------------------------------

VARIABLES
  main,           \* which main body the primary template file holds
  includedNames,  \* the recursion counter shared by include and tpl closures
  tsets,          \* template name spaces: tsets[1] the root's, then live clones
  stack,          \* the template executions in progress, innermost last
  err,            \* the error being propagated, "none" when there is none
  ret,            \* what the last include / tpl call returned
  phase,          \* "idle", "running" or "fatal" (utils.Error exits)
  runs,           \* completed executions of the root template
  rendered        \* the bytes of the last completed execution

evars == << main, includedNames, tsets, stack, err, ret, phase, runs, rendered >>

\* The state of one run of the templater command (cmd/templater.go).
VARIABLES
  pc,                   \* where run() is
  VariantsCfgFile,      \* --variants.cfg, "" when not given
  source,               \* what the variants definition and config files hold
  AdditionalVariables,  \* --dockerfile.var: override key -> value
  OutFmt,               \* --out.fmt, the name format template
  DockerfileTpl,        \* the main template of the run
  variants,             \* variants.Variants once loaded
  idx,                  \* the variant a loop is at
  pending,              \* UpdateData: the override keys still to apply
  dockerfile,           \* Render: the resolved output path of the variant
  out,                  \* Render: the rendered bytes of the variant
  dirExists,            \* whether the output directory exists
  files,                \* the files under the output directory: path -> bytes
  fatal                 \* what utils.Error reported, "" while none

pvars == << pc, VariantsCfgFile, source, AdditionalVariables, OutFmt, DockerfileTpl,
            variants, idx, pending, dockerfile, out, dirExists, files, fatal >>

\* The state of one call of utils.ParseTemplate(file, templateDirs).
VARIABLES
  cpc,           \* where ParseTemplate is
  templateDirs,  \* its argument: the fragment directories, in the order given
  funcs,         \* the functions registered on the root template
  parsed         \* what has been parsed into the root template, in order

cvars == << cpc, templateDirs, funcs, parsed >>

\* The renders that execute the one compiled template side by side.
VARIABLES
  renders        \* per render: where it is in includeFun, and its locals

rvars == << renders >>

\* No template is being compiled, and no renders run side by side.
NoCompile ==
  /\ cpc = "off"
  /\ templateDirs = <<>>
  /\ funcs = {}
  /\ parsed = <<>>
  /\ renders = <<>>

NoRet == [fn |-> "", name |-> "", val |-> <<>>, ok |-> TRUE]

Top == stack[Len(stack)]

\* The parse tree a frame executes.
Body(f) ==
  IF f.kind = "tpl" THEN TplTexts[f.name].main ELSE tsets[f.t + 1][f.name]

Defined(f) == f.kind = "tpl" \/ f.name \in DOMAIN tsets[f.t + 1]

AtEnd(f) == Defined(f) /\ f.pc > Len(Body(f))

Cur == Body(Top)[Top.pc]

Running == phase = "running" /\ stack # <<>>

Stepping == Running /\ err = "none" /\ Defined(Top) /\ ~AtEnd(Top)

\* name: the template executed (for a tpl frame, the text handed to tpl);
\* t: the name space it runs in; v: includeFun's local v.
Frame(kind, name, data, t, v) ==
  [kind |-> kind, name |-> name, pc |-> 1, data |-> data,
   buf |-> <<>>, t |-> t, v |-> v]

\* The caller's frame after a call returned `s`: the value is printed.
Resume(f, s) == [f EXCEPT !.buf = @ \o s, !.pc = @ + 1]

\* ------------------------------------------------------------------------
\* strings.ReplaceAll(s, old, "")
\* ------------------------------------------------------------------------

MatchAt(s, old, i) ==
  /\ i + Len(old) - 1 <= Len(s)
  /\ \A j \in 1..Len(old) : s[i + j - 1] = old[j]

RECURSIVE ReplaceFrom(_, _, _)
ReplaceFrom(s, old, i) ==
  IF i > Len(s) THEN <<>>
  ELSE IF MatchAt(s, old, i) THEN ReplaceFrom(s, old, i + Len(old))
  ELSE <<s[i]>> \o ReplaceFrom(s, old, i + 1)

ReplaceAll(s, old) == ReplaceFrom(s, old, 1)

\* ------------------------------------------------------------------------
\* ParseTemplate: the root template and its empty counter
\* ------------------------------------------------------------------------

ParseTemplate(b) == (RootName :> MainBodies[b]) @@ Defines

\* The engine alone: no command is running.
NoCommand ==
  /\ pc = "off"
  /\ VariantsCfgFile = ""
  /\ source = <<>>
  /\ AdditionalVariables = EmptyMap
  /\ OutFmt = <<>>
  /\ DockerfileTpl = <<>>
  /\ variants = <<>>
  /\ idx = 0
  /\ pending = {}
  /\ dockerfile = <<>>
  /\ out = <<>>
  /\ dirExists = FALSE
  /\ files = EmptyMap
  /\ fatal = ""

EngineInit ==
  /\ NoCommand
  /\ NoCompile
  /\ main \in 1..Len(MainBodies)
  /\ includedNames = EmptyMap
  /\ tsets = << ParseTemplate(main) >>
  /\ stack = <<>>
  /\ err = "none"
  /\ ret = NoRet
  /\ phase = "idle"
  /\ runs = 0
  /\ rendered = <<>>

\* utils.ExecuteTemplate: execute the root template against data.
Execute ==
  /\ phase = "idle"
  /\ runs < MaxRuns
  /\ \E d \in InputsOf(main) :
       stack' = << Frame("exec", RootName, d, 0, 0) >>
  /\ phase' = "running"
  /\ ret' = NoRet
  /\ UNCHANGED << pvars, cvars, rvars >>
  /\ UNCHANGED << main, includedNames, tsets, err, runs, rendered >>

\* Literal text of the template.
StepText ==
  /\ Stepping /\ Cur.op = "text"
  /\ stack' = [stack EXCEPT ![Len(stack)] = Resume(@, Cur.txt)]
  /\ UNCHANGED << pvars, cvars, rvars >>
  /\ UNCHANGED << main, includedNames, tsets, err, ret, phase, runs, rendered >>

\* {{ .key }} on a map: the value, or "<no value>" for a missing key.
FieldValue(data, k) == IF k \in DOMAIN data.m THEN data.m[k] ELSE NoValue

StepField ==
  /\ Stepping /\ Cur.op = "field"
  /\ stack' = [stack EXCEPT ![Len(stack)] = Resume(@, FieldValue(@.data, Cur.name))]
  /\ UNCHANGED << pvars, cvars, rvars >>
  /\ UNCHANGED << main, includedNames, tsets, err, ret, phase, runs, rendered >>

StepIf ==
  /\ Stepping /\ Cur.op = "ifpos"
  /\ stack' = [stack EXCEPT ![Len(stack)].pc =
                 IF Top.data.depth > 0 THEN @ + 1 ELSE @ + 1 + Cur.n]
  /\ UNCHANGED << pvars, cvars, rvars >>
  /\ UNCHANGED << main, includedNames, tsets, err, ret, phase, runs, rendered >>

\* ------------------------------------------------------------------------
\* include
\* ------------------------------------------------------------------------

\* Mutant: the guard compares one too late.
RefusedLate(name) ==
  name \in DOMAIN includedNames /\ includedNames[name] > recursionMaxNums + 1

\* Mutant: the guard refuses at the ceiling itself (>= for >).
RefusedAtCeiling(name) ==
  name \in DOMAIN includedNames /\ includedNames[name] >= recursionMaxNums

\* The guard of includeFun: the entry exists and exceeds the ceiling.
Refused(name) ==
  name \in DOMAIN includedNames /\ includedNames[name] > recursionMaxNums

\* The local v of includeFun (0 when the entry is absent).
Count(name) == IF name \in DOMAIN includedNames THEN includedNames[name] ELSE 0

\* Mutant: a tpl clone counts its inclusions apart from the root's counter.
IncrementRootOnly(name) ==
  IF Top.t > 0 THEN (name :> Count(name)) @@ includedNames
  ELSE IF name \in DOMAIN includedNames
  THEN [includedNames EXCEPT ![name] = @ + 1]
  ELSE (name :> 1) @@ includedNames

\* includedNames[name]++ or includedNames[name] = 1
Increment(name) ==
  IF name \in DOMAIN includedNames
  THEN [includedNames EXCEPT ![name] = @ + 1]
  ELSE (name :> 1) @@ includedNames

\* Mutant: the counter is restored only when the execution succeeded.
DecrementOnSuccess(name, e) ==
  IF e = "none" THEN [includedNames EXCEPT ![name] = @ - 1] ELSE includedNames

\* Mutant: the counter is never decremented.
DecrementNever(name, e) == includedNames

\* includedNames[name]--, on the success and on the error path alike
Decrement(name, e) == [includedNames EXCEPT ![name] = @ - 1]

\* Mutant: a refused include returns the empty string and no error.
IncludeRefuseSilently ==
  /\ Stepping /\ Cur.op = "include"
  /\ Refused(Cur.name)
  /\ ret' = [fn |-> "include", name |-> Cur.name, val |-> <<>>, ok |-> TRUE]
  /\ stack' = [stack EXCEPT ![Len(stack)] = Resume(@, <<>>)]
  /\ UNCHANGED << pvars, cvars, rvars >>
  /\ UNCHANGED << main, includedNames, tsets, err, phase, runs, rendered >>

IncludeRefuse ==
  /\ Stepping /\ Cur.op = "include"
  /\ Refused(Cur.name)
  /\ err' = "recursion"
  /\ ret' = [fn |-> "include", name |-> Cur.name, val |-> <<>>, ok |-> FALSE]
  /\ UNCHANGED << pvars, cvars, rvars >>
  /\ UNCHANGED << main, includedNames, tsets, stack, phase, runs, rendered >>

IncludeEnter ==
  /\ Stepping /\ Cur.op = "include"
  /\ ~Refused(Cur.name)
  /\ includedNames' = Increment(Cur.name)
  /\ stack' = Append(stack,
       Frame("include", Cur.name,
             [Top.data EXCEPT !.depth = @ - Cur.n], Top.t, Count(Cur.name)))
  /\ ret' = NoRet
  /\ UNCHANGED << pvars, cvars, rvars >>
  /\ UNCHANGED << main, tsets, err, phase, runs, rendered >>

\* t.ExecuteTemplate(&buf, name, data) when no template has that name.
IncludeNotFound ==
  /\ Running /\ err = "none"
  /\ Top.kind = "include" /\ ~Defined(Top)
  /\ err' = "notfound"
  /\ UNCHANGED << pvars, cvars, rvars >>
  /\ UNCHANGED << main, includedNames, tsets, stack, ret, phase, runs, rendered >>

\* ExecuteTemplate returned (with or without an error): decrement, return.
IncludeReturn ==
  /\ Running
  /\ Top.kind = "include"
  /\ err # "none" \/ AtEnd(Top)
  /\ includedNames' = Decrement(Top.name, err)
  /\ ret' = [fn |-> "include", name |-> Top.name, val |-> Top.buf, ok |-> err = "none"]
  /\ stack' =
       LET rest == SubSeq(stack, 1, Len(stack) - 1) IN
       IF err = "none"
       THEN [rest EXCEPT ![Len(rest)] = Resume(@, Top.buf)]
       ELSE rest
  /\ UNCHANGED << pvars, cvars, rvars >>
  /\ UNCHANGED << main, tsets, err, phase, runs, rendered >>

\* ------------------------------------------------------------------------
\* tpl
\* ------------------------------------------------------------------------

\* Mutant: tpl works on the parent itself instead of a clone.
CloneShared(p) == [sets |-> tsets, id |-> p]

\* parent.Clone(): a copy of the parent's name space, under a new identity.
Clone(p) == [sets |-> Append(tsets, tsets[p + 1]), id |-> Len(tsets)]

\* Mutant: the text is parsed into the parent's own name space.
ParseIntoParent(sets, c, text) ==
  [sets EXCEPT ![1] =
     (IF text.main = <<>> THEN EmptyMap ELSE (RootName :> text.main))
       @@ text.defs @@ @]

\* t.New(parent.Name()).Parse(tpl) in name space c: the define blocks of the
\* text are added, and a non-empty main body becomes the template of the
\* parent's name (an empty one leaves that name as it was).
Parse(sets, c, text) ==
  [sets EXCEPT ![c + 1] =
     (IF text.main = <<>> THEN EmptyMap ELSE (RootName :> text.main))
       @@ text.defs @@ @]

\* tpl cannot even parse its text: the error is returned, the clone dropped.
TplParseError ==
  /\ Stepping /\ Cur.op = "tpl"
  /\ ~TplTexts[Cur.name].ok
  /\ err' = "parse"
  /\ ret' = [fn |-> "tpl", name |-> Cur.name, val |-> <<>>, ok |-> FALSE]
  /\ UNCHANGED << pvars, cvars, rvars >>
  /\ UNCHANGED << main, includedNames, tsets, stack, phase, runs, rendered >>

TplEnter ==
  /\ Stepping /\ Cur.op = "tpl"
  /\ TplTexts[Cur.name].ok
  /\ Len(tsets) <= MaxTplDepth
  /\ LET c == Clone(Top.t) IN
       /\ tsets' = Parse(c.sets, c.id, TplTexts[Cur.name])
       /\ stack' = Append(stack, Frame("tpl", Cur.name, Top.data, c.id, 0))
  /\ ret' = NoRet
  /\ UNCHANGED << pvars, cvars, rvars >>
  /\ UNCHANGED << main, includedNames, err, phase, runs, rendered >>

\* strings.Replace(s, old, "", 1): only the first occurrence.
RECURSIVE ReplaceFirstFrom(_, _, _)
ReplaceFirstFrom(s, old, i) ==
  IF i > Len(s) THEN <<>>
  ELSE IF MatchAt(s, old, i) THEN SubSeq(s, i + Len(old), Len(s))
  ELSE <<s[i]>> \o ReplaceFirstFrom(s, old, i + 1)

\* Mutant: only the first placeholder is removed.
TplResultFirstOnly(buf) == ReplaceFirstFrom(buf, NoValue, 1)

\* The string tpl returns for the captured output.
TplResult(buf) == ReplaceAll(buf, NoValue)

\* t.Execute returned: the clone is garbage; the result is post-processed.
TplReturn ==
  /\ Running
  /\ Top.kind = "tpl"
  /\ err # "none" \/ AtEnd(Top)
  /\ LET rest == SubSeq(stack, 1, Len(stack) - 1)
         val  == IF err = "none" THEN TplResult(Top.buf) ELSE <<>>
     IN
       /\ ret' = [fn |-> "tpl", name |-> Top.name, val |-> val, ok |-> err = "none"]
       /\ tsets' = SubSeq(tsets, 1, rest[Len(rest)].t + 1)
       /\ stack' = IF err = "none"
                   THEN [rest EXCEPT ![Len(rest)] = Resume(@, val)]
                   ELSE rest
  /\ UNCHANGED << pvars, cvars, rvars >>
  /\ UNCHANGED << main, includedNames, err, phase, runs, rendered >>

\* ------------------------------------------------------------------------
\* The end of utils.ExecuteTemplate
\* ------------------------------------------------------------------------

ExecuteDone ==
  /\ Running /\ err = "none"
  /\ Top.kind = "exec" /\ AtEnd(Top)
  /\ rendered' = Top.buf
  /\ stack' = <<>>
  /\ phase' = "idle"
  /\ runs' = runs + 1
  /\ UNCHANGED << pvars, cvars, rvars >>
  /\ UNCHANGED << main, includedNames, tsets, err, ret >>

\* utils.Error("Could not execute template ..."): log.Fatalf ends the process.
ExecuteFatal ==
  /\ Running /\ err # "none"
  /\ Top.kind = "exec"
  /\ stack' = <<>>
  /\ phase' = "fatal"
  /\ UNCHANGED << pvars, cvars, rvars >>
  /\ UNCHANGED << main, includedNames, tsets, err, ret, runs, rendered >>

Step ==
  \/ StepText
  \/ StepField
  \/ StepIf
  \/ IncludeRefuse
  \/ IncludeEnter
  \/ IncludeNotFound
  \/ IncludeReturn
  \/ TplParseError
  \/ TplEnter
  \/ TplReturn
  \/ ExecuteDone
  \/ ExecuteFatal

Next == Execute \/ Step

vars == << evars, pvars, cvars, rvars >>

Spec == EngineInit /\ [][Next]_vars

\* The engine is sequential: a started execution keeps taking steps.
FairSpec == Spec /\ WF_vars(Step)

\* ========================================================================
\* The templater command: Load, Verify, Init, Render (cmd/templater.go)
\* ========================================================================

\* Largest number of variants (or of config entries) a definition holds.
MaxVariants == 2

\* A Go pointer: Nil, or a pointer to x.
Nil == <<>>
Ptr(x) == <<x>>
Deref(p) == p[1]

\* A value of the data bag (interface{}): a scalar or a nested mapping.
Scalar(x) == [t |-> "s", s |-> x, m |-> EmptyMap]
Map(mm) == [t |-> "m", s |-> "", m |-> mm]

\* type variant struct: Name *string, Image *struct{Name, Tag *string},
\* Data map[string]interface{} (inline: nil when the entry has no other key).
Variant(name, image, data) == [Name |-> name, Image |-> image, Data |-> data]
Image(name, tag) == Ptr([Name |-> name, Tag |-> tag])

BagScratch == [from_image |-> Scalar("scratch")]
BagBusybox ==
  [from_image |-> Scalar("busybox"), go |-> Map([version |-> Scalar("1.21")])]

\* The entries a variants definition may list.
VariantChoices ==
  { Variant(Ptr("a"), Image(Ptr("app"), Ptr("v1")), Ptr(BagScratch)),
    Variant(Ptr("b"), Image(Ptr("app"), Ptr("v2")), Ptr(BagBusybox)),
    Variant(Ptr("b"), Image(Ptr("app"), Ptr("v1")), Ptr(BagBusybox)),
    Variant(Nil,      Image(Ptr("app"), Ptr("v1")), Ptr(BagScratch)),
    Variant(Ptr("a"), Nil,                          Ptr(BagScratch)),
    Variant(Ptr("a"), Image(Nil, Ptr("v1")),        Ptr(BagScratch)),
    Variant(Ptr("b"), Image(Ptr("app"), Nil),       Ptr(BagBusybox)),
    Variant(Nil,      Image(Ptr("app"), Nil),       Ptr(BagBusybox)),
    Variant(Ptr("a"), Image(Ptr("app"), Ptr("v1")), Nil) }

SeqsUpTo(S, n) == UNION { [1..k -> S] : k \in 0..n }

\* A variants definition is either a plain document (a list of entries) or
\* a template that emits one entry per element of .versions of the config,
\* with the element as the entry's tag.
Sources ==
  { [plain |-> doc, entry |-> Variant(Nil, Nil, Nil), versions |-> <<>>] :
      doc \in SeqsUpTo(VariantChoices, MaxVariants) }
  \cup
  { [plain |-> <<>>, entry |-> e, versions |-> vs] :
      e \in VariantChoices, vs \in SeqsUpTo({"v1", "v2"}, MaxVariants) }

\* An override key "<scope>:<path>": the parts before the last ':' and the
\* dot-separated segments after it.
Key(scope, path) == [scope |-> scope, path |-> path]

\* A key as given on the command line: its text cut at every ':' and '.',
\* the separators kept, e.g. << "a", ":", "go", ".", "version" >>.
Colon == ":"
Dot == "."

\* strings.Split(s, sep): the pieces of s between the separators (one more
\* piece than there are separators, empty pieces included).
RECURSIVE Split(_, _)
Split(s, sep) ==
  IF \A i \in 1..Len(s) : s[i] # sep THEN << s >>
  ELSE LET i == CHOOSE j \in 1..Len(s) :
                  s[j] = sep /\ \A l \in 1..(j - 1) : s[l] # sep
       IN << SubSeq(s, 1, i - 1) >> \o Split(SubSeq(s, i + 1, Len(s)), sep)

\* The string a piece stands for ("" for an empty piece).
Str(piece) == IF piece = <<>> THEN "" ELSE piece[1]

\* variantKey := strings.Split(key, ":"); keyPath := variantKey[len - 1];
\* keyPathList := strings.Split(keyPath, ".")
ParseKey(raw) ==
  LET variantKey  == Split(raw, Colon)
      keyPath     == variantKey[Len(variantKey)]
      keyPathList == Split(keyPath, Dot)
  IN Key([i \in 1..(Len(variantKey) - 1) |-> Str(variantKey[i])],
         [i \in 1..Len(keyPathList) |-> Str(keyPathList[i])])

\* The --dockerfile.var maps a run may be given, by the keys as written.
RawOverrides ==
  { EmptyMap,
    (<< "from_image" >> :> "alpine"),
    (<< "a", Colon, "go", Dot, "version" >> :> "1.22"),
    (<< "from_image", Dot, "tag" >> :> "3"),
    (<< "a", Colon, "x", Colon, "from_image" >> :> "debian"),
    (<< "go" >> :> "x") @@ (<< "go", Dot, "version" >> :> "1.22"),
    (<< "a", Colon, "from_image" >> :> "debian") @@ (<< "from_image" >> :> "alpine") }

\* The override maps as UpdateData reads them: each key split into the parts
\* before the last ':' and the segments of the path.
OverrideChoices ==
  { [ k \in { ParseKey(raw) : raw \in DOMAIN m } |->
        m[CHOOSE raw \in DOMAIN m : ParseKey(raw) = k] ] : m \in RawOverrides }

\* A template of the command: literal text and {{ .a.b }} field chains.
Lit(x) == [op |-> "text", s |-> x, path |-> <<>>]
Get(path) == [op |-> "field", s |-> "", path |-> path]

OutFmtChoices ==
  { << Lit("Dockerfile."), Get(<<"image", "name">>), Lit("."), Get(<<"image", "tag">>) >>,
    << Lit("Dockerfile."), Get(<<"name">>), Lit("."), Get(<<"go", "version">>) >> }

DockerfileTplChoices ==
  { << Lit("FROM base:"), Get(<<"image", "tag">>) >>,
    << Lit("FROM "), Get(<<"from_image">>), Lit(" go "), Get(<<"go", "version">>) >> }

\* One step of a field chain on a value: cur is "value", "missing" (the nil
\* a missing map key evaluates to) or "error".
FieldOf(cur, k) ==
  IF cur.kind = "value" /\ cur.v.t = "m"
  THEN IF k \in DOMAIN cur.v.m
       THEN [kind |-> "value", v |-> cur.v.m[k]]
       ELSE [kind |-> "missing", v |-> Scalar("")]
  ELSE [kind |-> "error", v |-> Scalar("")]

RECURSIVE EvalPath(_, _)
EvalPath(cur, path) ==
  IF path = <<>> THEN cur ELSE EvalPath(FieldOf(cur, Head(path)), Tail(path))

\* What {{ .a.b }} prints against the bag.
EvalField(bag, path) ==
  LET r == EvalPath([kind |-> "value", v |-> Map(bag)], path) IN
  IF r.kind = "error" THEN [ok |-> FALSE, s |-> ""]
  ELSE IF r.kind = "missing" THEN [ok |-> TRUE, s |-> "<no value>"]
  ELSE IF r.v.t = "m" THEN [ok |-> TRUE, s |-> "map[...]"]
  ELSE [ok |-> TRUE, s |-> r.v.s]

RECURSIVE RenderFrom(_, _, _)
RenderFrom(body, bag, i) ==
  IF i > Len(body) THEN [ok |-> TRUE, out |-> <<>>]
  ELSE LET piece == IF body[i].op = "text" THEN [ok |-> TRUE, s |-> body[i].s]
                    ELSE EvalField(bag, body[i].path)
           rest  == RenderFrom(body, bag, i + 1)
       IN IF piece.ok /\ rest.ok
          THEN [ok |-> TRUE, out |-> <<piece.s>> \o rest.out]
          ELSE [ok |-> FALSE, out |-> <<>>]

\* tpl.Execute(&buf, data): the text, or an execution error.
Render(body, bag) == RenderFrom(body, bag, 1)

\* The engine variables of a run of the command are not modelled step by
\* step: its templates use no include and no tpl.
NoEngine ==
  /\ main = 1
  /\ includedNames = EmptyMap
  /\ tsets = <<>>
  /\ stack = <<>>
  /\ err = "none"
  /\ ret = NoRet
  /\ phase = "idle"
  /\ runs = 0
  /\ rendered = <<>>

RunInit ==
  /\ NoEngine
  /\ NoCompile
  /\ pc = "load"
  /\ VariantsCfgFile \in {"", "variants.cfg.yml"}
  /\ source \in Sources
  /\ (VariantsCfgFile = "") <=> (source.entry = Variant(Nil, Nil, Nil))
  /\ AdditionalVariables \in OverrideChoices
  /\ OutFmt \in OutFmtChoices
  /\ DockerfileTpl \in DockerfileTplChoices
  /\ variants = <<>>
  /\ idx = 0
  /\ pending = {}
  /\ dockerfile = <<>>
  /\ out = <<>>
  /\ dirExists \in BOOLEAN
  /\ files = EmptyMap
  /\ fatal = ""

\* utils.Error: log.Fatalf ends the process.
Fatal(what) == pc' = "fatal" /\ fatal' = what

\* ------------------------------------------------------------------------
\* variants.Load and variants.Verify
\* ------------------------------------------------------------------------

\* Mutant: the plain definition is treated as a template over the config.
LoadFromPlainExecuted == [ i \in 1..Len(source.versions) |-> source.entry ]

\* loadFromPlain: the definition file is decoded as it is.
LoadFromPlain == source.plain

\* Mutant: the definition is decoded with its range taken once.
LoadFromTemplateOnce ==
  IF source.versions = <<>> THEN <<>> ELSE << source.entry >>

\* loadFromTemplate: the definition is executed against the decoded config
\* and the result is decoded.
LoadFromTemplate ==
  [ i \in 1..Len(source.versions) |->
      [source.entry EXCEPT
         !.Image = IF @ = Nil THEN Nil ELSE Ptr([Deref(@) EXCEPT !.Tag =
                      IF @ = Nil THEN Nil ELSE Ptr(source.versions[i])])] ]

Load ==
  /\ pc = "load"
  /\ variants' = IF VariantsCfgFile = "" THEN LoadFromPlain ELSE LoadFromTemplate
  /\ pc' = "verify"
  /\ idx' = 1
  /\ UNCHANGED << VariantsCfgFile, source, AdditionalVariables, OutFmt, DockerfileTpl,
                  pending, dockerfile, out, dirExists, files, fatal >>
  /\ UNCHANGED << evars, cvars, rvars >>

\* Mutant: the emptiness of the variant list is not checked.
NoVariantsUnchecked(vs) == FALSE

\* variants.Verify: len(t.Variants) == 0
NoVariants(vs) == Len(vs) = 0

\* Mutant: image.tag is not checked.
MissingAttributeTagUnchecked(v) ==
  IF v.Name = Nil THEN "name"
  ELSE IF v.Image = Nil THEN "image"
  ELSE IF Deref(v.Image).Name = Nil THEN "image.name"
  ELSE ""

\* variant.Verify: the first attribute reported missing, "" when none is.
MissingAttribute(v) ==
  IF v.Name = Nil THEN "name"
  ELSE IF v.Image = Nil THEN "image"
  ELSE IF Deref(v.Image).Name = Nil THEN "image.name"
  ELSE IF Deref(v.Image).Tag = Nil THEN "image.tag"
  ELSE ""

\* variants.Verify on an empty list: "No variants configured".
VerifyEmpty ==
  /\ pc = "verify" /\ idx = 1
  /\ NoVariants(variants)
  /\ Fatal("No variants configured")
  /\ UNCHANGED << VariantsCfgFile, source, AdditionalVariables, OutFmt, DockerfileTpl,
                  variants, idx, pending, dockerfile, out, dirExists, files >>
  /\ UNCHANGED << evars, cvars, rvars >>

\* variants.Verify, one turn of its loop: v.Verify().
VerifyVariant ==
  /\ pc = "verify"
  /\ ~NoVariants(variants)
  /\ idx <= Len(variants)
  /\ LET missing == MissingAttribute(variants[idx]) IN
       IF missing # ""
       THEN Fatal(missing) /\ idx' = idx
       ELSE pc' = pc /\ fatal' = fatal /\ idx' = idx + 1
  /\ UNCHANGED << VariantsCfgFile, source, AdditionalVariables, OutFmt, DockerfileTpl,
                  variants, pending, dockerfile, out, dirExists, files >>
  /\ UNCHANGED << evars, cvars, rvars >>

\* templater.Init: the template is parsed, the output directory made sure of.
Init ==
  /\ pc = "verify"
  /\ ~NoVariants(variants)
  /\ idx > Len(variants)
  /\ dirExists' = TRUE
  /\ pc' = "render"
  /\ idx' = 1
  /\ UNCHANGED << VariantsCfgFile, source, AdditionalVariables, OutFmt, DockerfileTpl,
                  variants, pending, dockerfile, out, files, fatal >>
  /\ UNCHANGED << evars, cvars, rvars >>

\* ------------------------------------------------------------------------
\* templater.Render
\* ------------------------------------------------------------------------

\* A Go runtime panic (nil dereference, write to a nil map) ends the process.
Panic == pc' = "panic" /\ fatal' = fatal

\* variant.SetDataImage: the bag with image and name injected.
SetDataImage(v) ==
  ( "image" :> Map([name |-> Scalar(Deref(Deref(v.Image).Name)),
                    tag  |-> Scalar(Deref(Deref(v.Image).Tag))]) )
  @@ ( "name" :> Scalar(Deref(v.Name)) )
  @@ Deref(v.Data)

\* What SetDataImage dereferences or writes to without a check.
SetDataImagePanics(v) ==
  \/ v.Data = Nil
  \/ v.Name = Nil
  \/ v.Image = Nil
  \/ Deref(v.Image).Name = Nil
  \/ Deref(v.Image).Tag = Nil

RenderSetDataImage ==
  /\ pc = "render"
  /\ idx <= Len(variants)
  /\ IF SetDataImagePanics(variants[idx])
     THEN Panic /\ UNCHANGED << variants, pending >>
     ELSE /\ variants' = [variants EXCEPT ![idx].Data = Ptr(SetDataImage(variants[idx]))]
          /\ pending' = DOMAIN AdditionalVariables
          /\ pc' = "update"
          /\ fatal' = fatal
  /\ UNCHANGED << VariantsCfgFile, source, AdditionalVariables, OutFmt, DockerfileTpl,
                  idx, dockerfile, out, dirExists, files >>
  /\ UNCHANGED << evars, cvars, rvars >>

\* utils.UpdateAndGetMapElementByPath: the structure with the maps of the
\* path created where absent, and whether the path ends in a map (nil if not).
RECURSIVE UpdateAndGetMapElementByPath(_, _)
UpdateAndGetMapElementByPath(structure, keyPath) ==
  IF keyPath = <<>> THEN [isNil |-> FALSE, structure |-> structure]
  ELSE LET k   == Head(keyPath)
           val == IF k \in DOMAIN structure THEN structure[k] ELSE Map(EmptyMap)
           got == (k :> val) @@ structure
       IN IF val.t = "m"
          THEN LET r == UpdateAndGetMapElementByPath(val.m, Tail(keyPath))
               IN [isNil |-> r.isNil, structure |-> (k :> Map(r.structure)) @@ got]
          ELSE [isNil |-> TRUE, structure |-> got]

\* Mutant: the value is stored under the last key at the top of the bag.
AssignAtTop(structure, keyPath, lastKey, val) ==
  (lastKey :> Scalar(val)) @@ structure

\* elem[lastKey] = val, for the map elem that keyPath leads to.
RECURSIVE AssignAt(_, _, _, _)
AssignAt(structure, keyPath, lastKey, val) ==
  IF keyPath = <<>> THEN (lastKey :> Scalar(val)) @@ structure
  ELSE (Head(keyPath) :>
          Map(AssignAt(structure[Head(keyPath)].m, Tail(keyPath), lastKey, val)))
       @@ structure

\* Mutant: the variant name prefix is not looked at.
SkippedNever(key, v) == FALSE

\* Mutant: any key with a ':' is held against the variant's name.
SkippedWhenPrefixed(key, v) == Len(key.scope) >= 1 /\ key.scope[1] # Deref(v.Name)

\* len(variantKey) == 2 && variantKey[0] != *v.Name
SkippedFor(key, v) == Len(key.scope) = 1 /\ key.scope[1] # Deref(v.Name)

\* variant.UpdateData, one turn of its loop over the override map (Go ranges
\* over a map in no fixed order).
RenderUpdateData ==
  /\ pc = "update"
  /\ \E key \in pending :
       LET v      == variants[idx]
           front  == SubSeq(key.path, 1, Len(key.path) - 1)
           last   == key.path[Len(key.path)]
           r      == UpdateAndGetMapElementByPath(Deref(v.Data), front)
       IN
         /\ pending' = pending \ {key}
         /\ IF SkippedFor(key, v)
            THEN UNCHANGED << variants, pc, fatal >>
            ELSE IF r.isNil
            THEN Panic /\ variants' = [variants EXCEPT ![idx].Data = Ptr(r.structure)]
            ELSE /\ variants' = [variants EXCEPT ![idx].Data =
                      Ptr(AssignAt(r.structure, front, last, AdditionalVariables[key]))]
                 /\ UNCHANGED << pc, fatal >>
  /\ UNCHANGED << VariantsCfgFile, source, AdditionalVariables, OutFmt, DockerfileTpl,
                  idx, dockerfile, out, dirExists, files >>
  /\ UNCHANGED << evars, cvars, rvars >>

\* Mutant: an error of the name format is not treated as fatal.
RenderOutputFileIgnoresError ==
  /\ pc = "update"
  /\ pending = {}
  /\ dockerfile' = Render(OutFmt, Deref(variants[idx].Data)).out
  /\ pc' = "exec"
  /\ UNCHANGED << VariantsCfgFile, source, AdditionalVariables, OutFmt, DockerfileTpl,
                  variants, idx, pending, out, dirExists, files, fatal >>
  /\ UNCHANGED << evars, cvars, rvars >>

\* variant.OutputFile: the name format rendered against the bag.
RenderOutputFile ==
  /\ pc = "update"
  /\ pending = {}
  /\ LET r == Render(OutFmt, Deref(variants[idx].Data)) IN
       IF r.ok
       THEN dockerfile' = r.out /\ pc' = "exec" /\ fatal' = fatal
       ELSE Fatal("Failed to generate output file name") /\ dockerfile' = dockerfile
  /\ UNCHANGED << VariantsCfgFile, source, AdditionalVariables, OutFmt, DockerfileTpl,
                  variants, idx, pending, out, dirExists, files >>
  /\ UNCHANGED << evars, cvars, rvars >>

\* utils.ExecuteTemplate(variant.Data, t.template)
RenderExecuteTemplate ==
  /\ pc = "exec"
  /\ LET r == Render(DockerfileTpl, Deref(variants[idx].Data)) IN
       IF r.ok
       THEN out' = r.out /\ pc' = "write" /\ fatal' = fatal
       ELSE Fatal("Could not execute template") /\ out' = out
  /\ UNCHANGED << VariantsCfgFile, source, AdditionalVariables, OutFmt, DockerfileTpl,
                  variants, idx, pending, dockerfile, dirExists, files >>
  /\ UNCHANGED << evars, cvars, rvars >>

\* Mutant: a file that exists is not written again.
RenderWriteFileKeepsEarlier ==
  /\ pc = "write"
  /\ files' = files @@ (dockerfile :> out)
  /\ idx' = idx + 1
  /\ pc' = "render"
  /\ UNCHANGED << VariantsCfgFile, source, AdditionalVariables, OutFmt, DockerfileTpl,
                  variants, pending, dockerfile, out, dirExists, fatal >>
  /\ UNCHANGED << evars, cvars, rvars >>

\* os.WriteFile(dockerfile, rendered, os.ModePerm), then the next variant.
RenderWriteFile ==
  /\ pc = "write"
  /\ files' = (dockerfile :> out) @@ files
  /\ idx' = idx + 1
  /\ pc' = "render"
  /\ UNCHANGED << VariantsCfgFile, source, AdditionalVariables, OutFmt, DockerfileTpl,
                  variants, pending, dockerfile, out, dirExists, fatal >>
  /\ UNCHANGED << evars, cvars, rvars >>

\* Mutant: a failed write removes what the run has written so far.
RenderWriteFailsRollback ==
  /\ pc = "write"
  /\ Fatal("Could not write Dockerfile")
  /\ files' = EmptyMap
  /\ UNCHANGED << VariantsCfgFile, source, AdditionalVariables, OutFmt, DockerfileTpl,
                  variants, idx, pending, dockerfile, out, dirExists >>
  /\ UNCHANGED << evars, cvars, rvars >>

\* os.WriteFile fails.
RenderWriteFails ==
  /\ pc = "write"
  /\ Fatal("Could not write Dockerfile")
  /\ UNCHANGED << VariantsCfgFile, source, AdditionalVariables, OutFmt, DockerfileTpl,
                  variants, idx, pending, dockerfile, out, dirExists, files >>
  /\ UNCHANGED << evars, cvars, rvars >>

\* Render returns: run() is over.
RenderDone ==
  /\ pc = "render"
  /\ idx > Len(variants)
  /\ pc' = "done"
  /\ UNCHANGED << VariantsCfgFile, source, AdditionalVariables, OutFmt, DockerfileTpl,
                  variants, idx, pending, dockerfile, out, dirExists, files, fatal >>
  /\ UNCHANGED << evars, cvars, rvars >>

RunNext ==
  \/ Load
  \/ VerifyEmpty
  \/ VerifyVariant
  \/ Init
  \/ RenderSetDataImage
  \/ RenderUpdateData
  \/ RenderOutputFile
  \/ RenderExecuteTemplate
  \/ RenderWriteFile
  \/ RenderWriteFails
  \/ RenderDone

SpecRun == RunInit /\ [][RunNext]_vars

\* ========================================================================
\* Properties of the template engine
\* ========================================================================

IncludeFrames(name) ==
  { i \in 1..Len(stack) : stack[i].kind = "include" /\ stack[i].name = name }

\* Inclusions of `name` that were entered and have not returned yet.
LiveDepth(name) == Cardinality(IncludeFrames(name))

\* The next step is a call of include(name, _).
CallsInclude == Stepping /\ Cur.op = "include"

\* C1 (as written): the counter of every sub-template name is at most 1000.
C1_AtMostCeiling ==
  \A nm \in DOMAIN includedNames : includedNames[nm] <= recursionMaxNums

\* C1 (amended): the counter of every sub-template name is at most 1001: an
\* include entered with the counter at the ceiling is still accepted and
\* raises it once more.
C1_AtMostCeilingPlusOne ==
  \A nm \in DOMAIN includedNames : includedNames[nm] <= recursionMaxNums + 1

C1_Witness ==
  \E nm \in DOMAIN includedNames : includedNames[nm] = recursionMaxNums + 1

\* C2: the counter of each name equals the number of inclusions of that name
\* that were entered and have not exited yet, over the root template and all
\* tpl clones; it is never negative.
C2_CounterIsLiveDepth ==
  /\ \A nm \in DOMAIN includedNames :
       includedNames[nm] >= 0 /\ includedNames[nm] = LiveDepth(nm)
  /\ \A i \in 1..Len(stack) :
       stack[i].kind = "include" => stack[i].name \in DOMAIN includedNames

\* An inclusion alive inside a tpl clone, nested in another one of its name,
\* after earlier inclusions of that name have completed.
C2_Witness ==
  /\ runs = 1
  /\ stack # <<>>
  /\ Top.kind = "include" /\ Top.t > 0
  /\ includedNames[Top.name] = 2

\* C3: include(name, _) is refused exactly when the counter of name before
\* the call is greater than 1000; a refused call does not execute the
\* sub-template, and every other call executes it.
C3_RefusedExactlyAboveCeiling ==
  [][ CallsInclude =>
        /\ (err' = "recursion" /\ ~ret'.ok /\ stack' = stack)
             <=> Count(Cur.name) > recursionMaxNums
        /\ Count(Cur.name) <= recursionMaxNums =>
             /\ err' = "none"
             /\ Len(stack') = Len(stack) + 1
             /\ stack'[Len(stack')].kind = "include"
             /\ stack'[Len(stack')].name = Cur.name
             /\ stack'[Len(stack')].pc = 1 ]_vars

C3_Witness ==
  /\ err = "recursion" /\ ret.fn = "include" /\ ~ret.ok
  /\ stack # <<>> /\ Count(ret.name) = recursionMaxNums + 1

\* C4: when an include call returns, having succeeded, failed or been
\* refused, the counter of its name is what it was before the call (0 for an
\* absent entry); so a second non-nested include of a name is accepted.
C4_CounterRestored ==
  [][ /\ (Running /\ Top.kind = "include" /\ Len(stack') < Len(stack)) =>
           /\ Top.name \in DOMAIN includedNames'
           /\ includedNames'[Top.name] = Top.v
      /\ (CallsInclude /\ err' = "recursion") =>
           includedNames' = includedNames
      /\ (CallsInclude /\ Count(Cur.name) = 0) => err' = "none" ]_vars

\* The second of two consecutive inclusions of "leaf" is executing.
C4_Witness ==
  /\ Len(stack) = 2
  /\ stack[1].pc = 2
  /\ Top.kind = "include" /\ Top.name = "leaf" /\ Top.v = 0
  /\ "leaf" \in DOMAIN includedNames /\ includedNames["leaf"] = 1

\* C5: an unconditional recursive inclusion, direct or through a cycle, ends
\* with the recursion error, and the refusal comes only once the nesting depth
\* of a name exceeds 1000.
C5_RecursionEnds ==
  /\ (phase = "running" /\ main \in RecursiveMains)
        ~> (phase = "fatal" /\ err = "recursion")
  /\ [][ (err = "none" /\ err' = "recursion") =>
           LiveDepth(Cur.name) > recursionMaxNums ]_vars

\* The template that includes itself was refused with 1001 inclusions alive.
C5_Witness ==
  /\ phase = "running" /\ err = "recursion" /\ main = 1
  /\ ret.name = "self" /\ LiveDepth("self") = recursionMaxNums + 1

\* Names defined only inside texts handed to tpl.
TplOnlyNames ==
  (UNION { DOMAIN TplTexts[id].defs : id \in DOMAIN TplTexts }) \ DOMAIN Defines

\* C6: a tpl call leaves the root template's set of sub-templates unchanged,
\* and an include, from the root, of a name defined only in a tpl text fails
\* with template-not-found.
C6_NoLeak ==
  [][ /\ tsets'[1] = tsets[1]
      /\ ( /\ Running /\ err = "none"
           /\ Top.kind = "include" /\ Top.t = 0
           /\ Top.name \in TplOnlyNames ) => err' = "notfound" ]_vars

\* After tpl defined and used "x" in its clone, the root's include of "x" failed.
C6_Witness ==
  /\ main = 5 /\ err = "notfound"
  /\ stack # <<>> /\ Top.kind = "include" /\ Top.name = "x" /\ Top.t = 0
  /\ stack[1].pc = 2 /\ stack[1].buf = <<"x">>

\* s holds `old` at position i.
OccursAt(s, old, i) ==
  i + Len(old) - 1 <= Len(s) /\ SubSeq(s, i, i + Len(old) - 1) = old

Contains(s, old) == \E i \in 1..Len(s) : OccursAt(s, old, i)

\* The positions of s inside an occurrence of the placeholder.
Covered(s) ==
  { j \in 1..Len(s) :
      \E i \in 1..j : j < i + Len(NoValue) /\ OccursAt(s, NoValue, i) }

RECURSIVE KeepFrom(_, _, _)
KeepFrom(s, drop, i) ==
  IF i > Len(s) THEN <<>>
  ELSE (IF i \in drop THEN <<>> ELSE <<s[i]>>) \o KeepFrom(s, drop, i + 1)

\* C7 (as written): the string of a successful tpl call holds no "<no value>".
C7_NoPlaceholderLeft ==
  (ret.fn = "tpl" /\ ret.ok) => ~Contains(ret.val, NoValue)

\* C7 (amended): a successful tpl call returns the captured output without
\* the characters of the placeholder occurrences in the captured output; a
\* captured output that is one placeholder gives the empty string. (The text
\* around a removed occurrence may join into a new "<no value>".)
C7_OccurrencesRemoved ==
  [][ (Running /\ Top.kind = "tpl" /\ err = "none" /\ Len(stack') < Len(stack)) =>
        /\ ret'.ok
        /\ ret'.val = KeepFrom(Top.buf, Covered(Top.buf), 1)
        /\ Top.buf = NoValue => ret'.val = <<>> ]_vars

\* tpl("{{ .missingKey }}", {}) returned the empty string.
C7_Witness ==
  /\ ret.fn = "tpl" /\ ret.ok /\ ret.name = "TMissing" /\ ret.val = <<>>
  /\ stack # <<>> /\ Top.data.m = EmptyMap

\* ========================================================================
\* Properties of the templater command
\* ========================================================================

Loaded == pc # "load"

\* The variant lacks image, image.name or image.tag.
LacksImageField(v) ==
  \/ v.Image = Nil
  \/ Deref(v.Image).Name = Nil
  \/ Deref(v.Image).Tag = Nil

MissingMessages == {"name", "image", "image.name", "image.tag"}

\* Render has begun (the output directory was made sure of before it).
Rendering == pc \in {"render", "update", "exec", "write", "done", "panic"}

\* C8: with a variant that lacks image, image.name or image.tag in the loaded
\* set, the run never gets past validation: it is still verifying, before
\* the failing variant, or has ended with the missing-attribute error; no
\* file is written and the output directory is not touched.
C8_InvalidVariantNoOutput ==
  (Loaded /\ \E i \in 1..Len(variants) : LacksImageField(variants[i])) =>
     /\ files = EmptyMap
     /\ ~Rendering
     /\ pc = "verify" =>
          /\ idx <= Len(variants)
          /\ \E i \in idx..Len(variants) : LacksImageField(variants[i])
     /\ pc = "fatal" => fatal \in MissingMessages

\* The second variant lacks image.tag; the first one was valid.
C8_Witness ==
  /\ pc = "fatal" /\ fatal = "image.tag" /\ idx = 2
  /\ ~LacksImageField(variants[1])
  /\ Deref(variants[2].Image).Tag = Nil
  /\ files = EmptyMap

\* C9 (as written): name is optional, so a set whose variants all have
\* image.name and image.tag passes validation.
C9_NameOptional ==
  (Loaded /\ \A i \in 1..Len(variants) : ~LacksImageField(variants[i])) =>
     ~(pc = "fatal" /\ fatal \in MissingMessages)

\* C10: a loaded set of zero variants ends the run with "No variants
\* configured" before anything is rendered or written; a run that reaches
\* rendering has at least one variant.
C10_EmptySetIsFatal ==
  /\ (Loaded /\ Len(variants) = 0) =>
        /\ files = EmptyMap
        /\ \/ pc = "verify" /\ idx = 1
           \/ pc = "fatal" /\ fatal = "No variants configured"
  /\ Rendering => Len(variants) >= 1

\* A templated definition over an empty config list was refused.
C10_Witness ==
  /\ pc = "fatal" /\ fatal = "No variants configured"
  /\ VariantsCfgFile # "" /\ source.versions = <<>>
  /\ variants = <<>>

\* The errors Render reports for a variant it could not render or write.
RenderFailures ==
  { "Failed to generate output file name", "Could not execute template",
    "Could not write Dockerfile" }

Ended == pc \in {"done", "fatal", "panic"}

\* The output name and the content of variant i, from its data bag once
\* image, name and the overrides are in it.
NameOf(i) == Render(OutFmt, Deref(variants[i].Data)).out
ContentOf(i) == Render(DockerfileTpl, Deref(variants[i].Data)).out

DistinctNames ==
  \A i, j \in 1..Len(variants) : i # j => NameOf(i) # NameOf(j)

\* C11 (as written): a run over a set of n variants that all pass
\* validation, whose templates render and whose writes succeed, ends
\* normally; with pairwise distinct output names it leaves exactly n files,
\* the file of each variant named by the name format and holding the main
\* template, both rendered against that variant's data.
C11_ExactlyNFiles ==
  ( /\ Ended
    /\ Len(variants) >= 1
    /\ \A i \in 1..Len(variants) : MissingAttribute(variants[i]) = ""
    /\ ~(pc = "fatal" /\ fatal \in RenderFailures) ) =>
       /\ pc = "done"
       /\ DistinctNames =>
            /\ Cardinality(DOMAIN files) = Len(variants)
            /\ \A i \in 1..Len(variants) :
                 NameOf(i) \in DOMAIN files /\ files[NameOf(i)] = ContentOf(i)

C13_ModeByConfigPath ==
  /\ [][ pc = "load" =>
           /\ VariantsCfgFile = "" => variants' = source.plain
           /\ VariantsCfgFile # "" =>
                /\ Len(variants') = Len(source.versions)
                /\ \A i \in 1..Len(variants') : variants'[i].Name = source.entry.Name
           /\ pc' = "verify" /\ idx' = 1 ]_vars
  /\ [](Rendering =>
          \A i \in 1..Len(variants) :
            variants[i].Name # Nil /\ ~LacksImageField(variants[i]))

\* A plain definition of two entries was decoded as it is.
C13_Witness ==
  /\ pc = "verify" /\ idx = 1
  /\ VariantsCfgFile = ""
  /\ Len(source.plain) = 2 /\ variants = source.plain

\* The override UpdateData handles in this step.
Handled == CHOOSE k \in pending \ pending' : TRUE

\* The bag holds the scalar val at the path.
HoldsAt(bag, path, val) ==
  LET r == EvalPath([kind |-> "value", v |-> Map(bag)], path)
  IN r.kind = "value" /\ r.v = Scalar(val)

CrossesScalar(bag, path) ==
  \E n \in 1..(Len(path) - 1) :
    LET r == EvalPath([kind |-> "value", v |-> Map(bag)], SubSeq(path, 1, n))
    IN r.kind = "value" /\ r.v.t = "s"

\* C15 (as written): an override whose path crosses a scalar is dropped: the
\* run goes on with the next override and the variant's bag is unchanged.
C15_DroppedNotFatal ==
  [][ ( /\ pc = "update" /\ pending' # pending
        /\ ~SkippedFor(Handled, variants[idx])
        /\ CrossesScalar(Deref(variants[idx].Data), Handled.path) ) =>
          /\ pc' = "update"
          /\ variants' = variants ]_vars

\* Bag `after` is bag `before` with val at the path and nothing else changed:
\* every key off the path keeps its value, at every level of the path.
RECURSIVE SetOnly(_, _, _, _)
SetOnly(before, after, path, val) ==
  LET k == Head(path) IN
  /\ DOMAIN after = DOMAIN before \cup {k}
  /\ \A x \in DOMAIN before : x # k => after[x] = before[x]
  /\ IF Len(path) = 1
     THEN after[k] = Scalar(val)
     ELSE /\ after[k].t = "m"
          /\ SetOnly(IF k \in DOMAIN before THEN before[k].m ELSE EmptyMap,
                     after[k].m, Tail(path), val)

\* C16: an override that applies to the variant and whose path crosses no
\* scalar leaves the bag with the value at exactly that path (missing
\* mappings created, an existing final value replaced) and every key off the
\* path as it was; the run goes on.
C16_ValueAtPath ==
  [][ ( /\ pc = "update" /\ pending' # pending
        /\ ~SkippedFor(Handled, variants[idx])
        /\ ~CrossesScalar(Deref(variants[idx].Data), Handled.path) ) =>
          /\ pc' = "update"
          /\ variants'[idx].Data # Nil
          /\ SetOnly(Deref(variants[idx].Data), Deref(variants'[idx].Data),
                     Handled.path, AdditionalVariables[Handled])
          /\ HoldsAt(Deref(variants'[idx].Data), Handled.path,
                     AdditionalVariables[Handled]) ]_vars

\* go.version = 1.22 was set in a bag that had no "go" mapping.
C16_Witness ==
  /\ pc = "update" /\ pending = {} /\ idx = 1
  /\ DOMAIN AdditionalVariables = { Key(<<"a">>, <<"go", "version">>) }
  /\ source.plain # <<>> /\ source.plain[1].Data = Ptr(BagScratch)
  /\ HoldsAt(Deref(variants[1].Data), <<"go", "version">>, "1.22")
  /\ HoldsAt(Deref(variants[1].Data), <<"from_image">>, "scratch")

\* Render stopped at variant idx: a fatal error of Render, or a panic.
RenderFailed == pc = "panic" \/ (pc = "fatal" /\ fatal \in RenderFailures)

\* The last of the variants before n that resolved to the name of variant j.
LastNamed(j, n) ==
  CHOOSE k \in j..(n - 1) :
    /\ NameOf(k) = NameOf(j)
    /\ \A l \in (k + 1)..(n - 1) : NameOf(l) # NameOf(j)

\* C17: the step on which rendering or writing of a variant fails changes no
\* file; after it the run takes no further step; the files left are exactly
\* those written for the variants before the failing one, with their content.
C17_NoRollbackNoLaterWrite ==
  /\ [][ (pc' \in {"fatal", "panic"}) => files' = files ]_vars
  /\ [][ pc \notin {"fatal", "panic"} ]_vars
  /\ [](RenderFailed =>
          /\ DOMAIN files = { NameOf(j) : j \in 1..(idx - 1) }
          /\ \A j \in 1..(idx - 1) :
               files[NameOf(j)] = ContentOf(LastNamed(j, idx)))

\* The second variant failed after the file of the first was written.
C17_Witness ==
  /\ pc = "fatal" /\ fatal \in RenderFailures
  /\ idx = 2
  /\ DOMAIN files = { NameOf(1) } /\ files[NameOf(1)] = ContentOf(1)

\* C20: for each variant the steps follow one another as injection,
\* overrides, name resolution, template execution, write; the bag does not
\* change once the name is being resolved; a file is written only at the
\* write step, after both renders succeeded, under the name and with the
\* content rendered from that one bag; a variant whose name or template
\* render fails leaves no file of its own.
C20_StepsInOrder ==
  /\ [][ /\ pc = "render" => pc' \in {"update", "panic", "done"}
         /\ pc = "update" => pc' \in {"update", "exec", "fatal", "panic"}
         /\ pc = "exec"   => pc' \in {"write", "fatal"}
         /\ pc = "write"  => pc' \in {"render", "fatal"}
         /\ pc \in {"exec", "write"} => variants' = variants
         /\ pc' = "exec" =>
              /\ pending = {}
              /\ {"image", "name"} \subseteq DOMAIN Deref(variants[idx].Data)
         /\ files' # files =>
              /\ pc = "write"
              /\ Render(OutFmt, Deref(variants[idx].Data)).ok
              /\ Render(DockerfileTpl, Deref(variants[idx].Data)).ok
              /\ files' = (NameOf(idx) :> ContentOf(idx)) @@ files ]_vars
  /\ []( ( /\ pc = "fatal"
           /\ fatal \in { "Failed to generate output file name",
                          "Could not execute template" } ) =>
           DOMAIN files = { NameOf(j) : j \in 1..(idx - 1) } )

\* The name format of the first variant could not be rendered: no file.
C20_Witness ==
  /\ pc = "fatal" /\ fatal = "Failed to generate output file name"
  /\ idx = 1 /\ files = EmptyMap
  /\ Render(DockerfileTpl, Deref(variants[1].Data)).ok

\* ========================================================================
\* Successive executions of the one compiled template (one per variant)
\* ========================================================================

\* What the walk over a tree of depth d prints.
RECURSIVE WalkText(_)
WalkText(d) ==
  IF d = 0 THEN <<"(", ")">>
  ELSE <<"(">> \o WalkText(d - 1) \o WalkText(d - 1) \o <<")">>

\* What "leaf" prints against the data.
LeafText(data) ==
  <<"x">> \o (IF "k" \in DOMAIN data.m THEN data.m["k"] ELSE NoValue)

MaxDirs == 2

\* The fragment directories: the sub-templates their *.tpl files define
\* ("none" has no *.tpl file, for which ParseGlob returns an error).
Dirs ==
  [ d1   |-> [files |-> TRUE,
              defs  |-> [leaf |-> << Text(<<"1">>) >>, x |-> << Inc("leaf") >>]],
    d2   |-> [files |-> TRUE, defs |-> [leaf |-> << Text(<<"2">>) >>]],
    none |-> [files |-> FALSE, defs |-> EmptyMap] ]

\* What the primary file defines: its main body under the root's name; the
\* fourth one also declares an empty default for "leaf".
PrimaryDefs(b) ==
  IF b = 4 THEN (RootName :> MainBodies[b]) @@ [leaf |-> << >>]
  ELSE (RootName :> MainBodies[b])

\* The functions the bodies of defs call.
Uses(defs) ==
  { f \in {"include", "tpl"} :
      \E n \in DOMAIN defs : \E i \in 1..Len(defs[n]) : defs[n][i].op = f }

\* text/template: parsing adds the definitions to the set; a definition
\* replaces one of the same name unless its own body is empty.
Associate(set, defs) ==
  [ n \in DOMAIN set \cup DOMAIN defs |->
      IF n \in DOMAIN defs /\ (defs[n] # <<>> \/ n \notin DOMAIN set)
      THEN defs[n] ELSE set[n] ]

CompileInit ==
  /\ NoCommand
  /\ cpc = "new"
  /\ renders = <<>>
  /\ templateDirs \in SeqsUpTo(DOMAIN Dirs, MaxDirs)
  /\ funcs = {}
  /\ parsed = <<>>
  /\ main \in 1..Len(MainBodies)
  /\ includedNames = EmptyMap
  /\ tsets = <<>>
  /\ stack = <<>>
  /\ err = "none"
  /\ ret = NoRet
  /\ phase = "idle"
  /\ runs = 0
  /\ rendered = <<>>

\* template.New(filepath.Base(file)) and the empty counter.
CompileNew ==
  /\ cpc = "new"
  /\ tsets' = << EmptyMap >>
  /\ includedNames' = EmptyMap
  /\ cpc' = "funcs"
  /\ UNCHANGED << templateDirs, funcs, parsed >>
  /\ UNCHANGED << main, stack, err, ret, phase, runs, rendered >>
  /\ UNCHANGED << pvars, rvars >>

\* tpl.Funcs(...): include and tpl close over the root and the counter.
CompileFuncs ==
  /\ cpc = "funcs"
  /\ funcs' = {"toYaml", "include", "tpl"}
  /\ cpc' = "parse"
  /\ UNCHANGED << templateDirs, parsed >>
  /\ UNCHANGED evars
  /\ UNCHANGED << pvars, rvars >>

\* Mutant: the primary file is parsed without waiting for the directories.
DirsParsedAtOnce == TRUE

\* InitTemplateDirs has gone through every directory.
DirsParsed == Len(parsed) >= Len(templateDirs)

\* The outcome of parsing defs into the root: an undefined function in a
\* body is a parse error.
ParseInto(defs) ==
  IF Uses(defs) \subseteq funcs
  THEN [ok |-> TRUE, set |-> Associate(tsets[1], defs)]
  ELSE [ok |-> FALSE, set |-> tsets[1]]

\* InitTemplateDirs, one turn of its loop: template.ParseGlob(dir/*.tpl).
CompileParseGlob ==
  /\ cpc = "parse"
  /\ ~DirsParsed
  /\ LET dir == templateDirs[Len(parsed) + 1]
         r   == ParseInto(Dirs[dir].defs)
     IN IF Dirs[dir].files /\ r.ok
        THEN /\ tsets' = << r.set >>
             /\ parsed' = Append(parsed, dir)
             /\ cpc' = cpc
        ELSE /\ cpc' = "fatal"
             /\ UNCHANGED << tsets, parsed >>
  /\ UNCHANGED << templateDirs, funcs >>
  /\ UNCHANGED << main, includedNames, stack, err, ret, phase, runs, rendered >>
  /\ UNCHANGED << pvars, rvars >>

\* tpl.ParseFiles(path): the primary file.
CompileParseFiles ==
  /\ cpc = "parse"
  /\ DirsParsed
  /\ RootName \notin { parsed[i] : i \in 1..Len(parsed) }
  /\ LET r == ParseInto(PrimaryDefs(main))
     IN IF r.ok
        THEN /\ tsets' = << r.set >>
             /\ parsed' = Append(parsed, RootName)
             /\ cpc' = "done"
        ELSE /\ cpc' = "fatal"
             /\ UNCHANGED << tsets, parsed >>
  /\ UNCHANGED << templateDirs, funcs >>
  /\ UNCHANGED << main, includedNames, stack, err, ret, phase, runs, rendered >>
  /\ UNCHANGED << pvars, rvars >>

CompileNext ==
  \/ CompileNew
  \/ CompileFuncs
  \/ CompileParseGlob
  \/ CompileParseFiles

SpecCompile == CompileInit /\ [][CompileNext]_vars

FirstMissingImageField(v) ==
  IF v.Image = Nil THEN "image"
  ELSE IF Deref(v.Image).Name = Nil THEN "image.name"
  ELSE IF Deref(v.Image).Tag = Nil THEN "image.tag"
  ELSE ""

\* C21 (as written): validation stops at the first variant that lacks one of
\* image, image.name, image.tag, and its error names the first of these three
\* that the variant lacks; the variants before it lack none.
C21_FirstMissingOfImageFields ==
  (pc = "fatal" /\ fatal \in MissingMessages) =>
     /\ fatal = FirstMissingImageField(variants[idx])
     /\ \A j \in 1..(idx - 1) : ~LacksImageField(variants[j])

\* Live inclusions of `name` in the root template (t = 0) and in tpl clones.
LiveInRoot(name) ==
  Cardinality({ i \in IncludeFrames(name) : stack[i].t = 0 })

LiveInClones(name) ==
  Cardinality({ i \in IncludeFrames(name) : stack[i].t > 0 })

\* C22: the include calls made from tpl texts, in clones at any nesting, read
\* and update the counter the root's includes use: the counter of a name is
\* the number of its live inclusions in the root plus those in all clones,
\* and an include made in a clone is refused exactly when that total exceeds
\* the ceiling, the counter being left as it is.
C22_OneCounterAcrossClones ==
  /\ \A nm \in DOMAIN includedNames :
       includedNames[nm] = LiveInRoot(nm) + LiveInClones(nm)
  /\ (CallsInclude /\ Top.t > 0) =>
       (Refused(Cur.name) <=>
          LiveInRoot(Cur.name) + LiveInClones(Cur.name) > recursionMaxNums)

\* An include of "mix" is called in a tpl clone while inclusions of "mix" are
\* alive both in the root and in the clone.
C22_Witness ==
  /\ CallsInclude /\ Top.t > 0
  /\ LiveInRoot(Cur.name) >= 1
  /\ LiveInClones(Cur.name) >= 2

\* A call of include or tpl starts executing its template: a frame is pushed.
StartsExecuting(kind) ==
  /\ Len(stack') = Len(stack) + 1
  /\ stack'[Len(stack')].kind = kind

\* C23 (as written): every invocation of include and of tpl passes the depth
\* check before it executes: the step that starts the execution found a
\* counter at or below the ceiling and raised it by one.
C23_EveryInvocationGuarded ==
  [][ (StartsExecuting("include") \/ StartsExecuting("tpl")) =>
        \E nm \in DOMAIN includedNames' :
          /\ Count(nm) <= recursionMaxNums
          /\ includedNames'[nm] = Count(nm) + 1 ]_vars

\* The output paths the variants of the run resolve to.
ResolvedPaths == { NameOf(i) : i \in 1..Len(variants) }

\* C25: the variants are written in list order: the write for variant idx
\* comes when the files are those of the variants before it, and it puts the
\* variant's content at the variant's path whether or not a file is there,
\* then Render moves to the next variant; after a run that ended normally
\* there is one file per distinct resolved path, holding the content of the
\* last variant that resolved to it.
C25_ListOrderLaterWriteWins ==
  /\ [][ (pc = "write" /\ pc' = "render") =>
           /\ DOMAIN files = { NameOf(j) : j \in 1..(idx - 1) }
           /\ files' = (NameOf(idx) :> ContentOf(idx)) @@ files
           /\ idx' = idx + 1 ]_vars
  /\ []( (pc = "done") =>
           /\ DOMAIN files = ResolvedPaths
           /\ Cardinality(DOMAIN files) = Cardinality(ResolvedPaths)
           /\ \A i \in 1..Len(variants) :
                files[NameOf(i)] = ContentOf(LastNamed(i, Len(variants) + 1)) )

\* Two variants resolved to one path; the run ended normally with one file,
\* which holds the second variant's content and not the first's.
C25_Witness ==
  /\ pc = "done"
  /\ Len(variants) = 2
  /\ NameOf(1) = NameOf(2)
  /\ ContentOf(1) # ContentOf(2)
  /\ Cardinality(DOMAIN files) = 1
  /\ files[NameOf(1)] = ContentOf(2)

\* The orders in which a range over the override map may visit its keys.
Orders(keys) ==
  { o \in [1..Cardinality(keys) -> keys] :
      \A i, j \in 1..Cardinality(keys) : i # j => o[i] # o[j] }

\* UpdateData's loop run in the order o on the bag of variant v: whether it
\* panicked, and the bag it left when it did not.
RECURSIVE UpdateDataIn(_, _, _)
UpdateDataIn(o, v, bag) ==
  IF o = <<>> THEN [panicked |-> FALSE, bag |-> bag]
  ELSE LET key   == Head(o)
           front == SubSeq(key.path, 1, Len(key.path) - 1)
           last  == key.path[Len(key.path)]
           r     == UpdateAndGetMapElementByPath(bag, front)
       IN IF SkippedFor(key, v) THEN UpdateDataIn(Tail(o), v, bag)
          ELSE IF r.isNil THEN [panicked |-> TRUE, bag |-> EmptyMap]
          ELSE UpdateDataIn(Tail(o), v,
                 AssignAt(r.structure, front, last, AdditionalVariables[key]))

\* C26 (as written): when UpdateData starts on a variant, every order of the
\* override map gives the same outcome: the same bag, or a failed run in
\* every order.
C26_OrderIndependent ==
  (pc = "update" /\ pending = DOMAIN AdditionalVariables) =>
     \A o1, o2 \in Orders(pending) :
       UpdateDataIn(o1, variants[idx], Deref(variants[idx].Data))
         = UpdateDataIn(o2, variants[idx], Deref(variants[idx].Data))

\* What the range over the map did on this variant, step by step, is one of
\* the orders: the state UpdateData ends in is the outcome of that order.
UpdateDataFollowsAnOrder ==
  ( /\ pc \in {"update", "panic"}
    /\ idx \in 1..Len(variants)
    /\ variants[idx].Data # Nil
    /\ "image" \in DOMAIN Deref(variants[idx].Data)
    /\ pc = "update" => pending = {} ) =>
     \E o \in Orders(DOMAIN AdditionalVariables) :
       LET orig == IF VariantsCfgFile = "" THEN source.plain[idx]
                   ELSE LoadFromTemplate[idx]
           res  == UpdateDataIn(o, orig, SetDataImage(orig))
       IN IF pc = "panic" THEN res.panicked
          ELSE ~res.panicked /\ res.bag = Deref(variants[idx].Data)

\* C27 (as written): a variant that holds only its identity fields (name and
\* image, no other key) is rendered: neither the injection of image and name
\* nor an override ends the run on it.
C27_IdentityOnlyRendered ==
  ( /\ Rendering
    /\ idx \in 1..Len(variants)
    /\ MissingAttribute(variants[idx]) = ""
    /\ variants[idx].Data = Nil ) => pc # "panic"

\* The tpl call whose clone the frame at position i of the stack runs in.
CloneOwner(i) ==
  CHOOSE j \in 1..i : stack[j].kind = "tpl" /\ stack[j].t = stack[i].t

\* C28: tpl parses its text under the root's name in its clone only: at
\* every moment, before, during and after any tpl call, the root's own name
\* space holds the primary source as its main body, and every execution of
\* the root template runs that source; inside a clone, an include of the
\* root's name runs the main body of the text given to the tpl call that
\* made the clone.
C28_ParentMainUnchanged ==
  /\ tsets[1][RootName] = MainBodies[main]
  /\ \A i \in 1..Len(stack) :
       /\ stack[i].kind = "exec" => Body(stack[i]) = MainBodies[main]
       /\ ( /\ stack[i].kind = "include"
            /\ stack[i].name = RootName
            /\ stack[i].t > 0 ) =>
              /\ TplTexts[stack[CloneOwner(i)].name].main # <<>>
              /\ Body(stack[i]) = TplTexts[stack[CloneOwner(i)].name].main

\* A later execution of the root, after the tpl calls of the first one: in a
\* clone an include of the root's name runs the tpl text, which is not the
\* primary source.
C28_Witness ==
  /\ runs = 1
  /\ stack # <<>>
  /\ Top.kind = "include" /\ Top.name = RootName /\ Top.t > 0
  /\ Top.pc > 1
  /\ Body(Top) = TplTexts.TRoot.main
  /\ Body(Top) # MainBodies[main]
  /\ Body(stack[1]) = MainBodies[main]

\* The keys written on the command lines of the runs.
RawKeys == UNION { DOMAIN m : m \in RawOverrides }

\* The number of ':' in a key, and the text after the last of them.
Colons(raw) == Cardinality({ i \in 1..Len(raw) : raw[i] = Colon })

AfterLastColon(raw) ==
  LET at == { i \in 1..Len(raw) : raw[i] = Colon }
      n  == IF at = {} THEN 0 ELSE CHOOSE i \in at : \A j \in at : j <= i
  IN SubSeq(raw, n + 1, Len(raw))

IsSegment(tok) == tok # Dot

\* C29: the key path of an override is the text after the last ':' of its
\* key, whatever the number of ':'; a key is held against the variant's name
\* (and skipped when the name differs) only when it has exactly one ':', and
\* a key with no ':' or with two or more is applied to every variant: its
\* value is at the key path afterwards, or the run stops.
C29_ScopedByExactlyOneColon ==
  /\ [](\A raw \in RawKeys :
          /\ Len(ParseKey(raw).scope) = Colons(raw)
          /\ ParseKey(raw).path = SelectSeq(AfterLastColon(raw), IsSegment))
  /\ [][ (pc = "update" /\ pending' # pending) =>
           LET v    == variants[idx]
               raw  == CHOOSE x \in RawKeys : ParseKey(x) = Handled
               held == Colons(raw) = 1 /\ raw[1] # Deref(v.Name)
           IN IF held
              THEN variants' = variants /\ pc' = "update"
              ELSE \/ pc' = "panic"
                   \/ HoldsAt(Deref(variants'[idx].Data),
                              SelectSeq(AfterLastColon(raw), IsSegment),
                              AdditionalVariables[Handled]) ]_vars

\* "a:x:from_image" was applied to variant b, at the path from_image.
C29_Witness ==
  /\ pc = "update" /\ pending = {}
  /\ DOMAIN AdditionalVariables = { ParseKey(<< "a", Colon, "x", Colon, "from_image" >>) }
  /\ variants[idx].Name = Ptr("b")
  /\ HoldsAt(Deref(variants[idx].Data), << "from_image" >>, "debian")

\* ========================================================================
\* Two renders of the one compiled template, run without mutual exclusion
\* ========================================================================

\* The renders of two variants of one run.
Renders == {"first", "second"}

\* The sub-template both renders include, one inclusion inside the other.
RaceName == "walk"

\* One render: where it is in includeFun, how many of its inclusions are
\* alive, the values it read, and whether its execution already returns.
Render0 ==
  [pc |-> "idle", nest |-> 0, v |-> 0, ok |-> FALSE, tmp |-> 0,
   up |-> FALSE, failed |-> FALSE]

\* templater.Render hands the one t.template, hence the one counter, to the
\* render of every variant; an earlier render may have left the entry at 0.
RaceInit ==
  /\ NoCommand
  /\ cpc = "off" /\ templateDirs = <<>> /\ funcs = {} /\ parsed = <<>>
  /\ main = 3
  /\ includedNames \in { EmptyMap, (RaceName :> 0) }
  /\ tsets = << ParseTemplate(main) >>
  /\ stack = <<>>
  /\ err = "none"
  /\ ret = NoRet
  /\ phase = "idle"
  /\ runs = 0
  /\ rendered = <<>>
  /\ renders = [r \in Renders |-> Render0]

RaceFrame ==
  /\ UNCHANGED << main, tsets, stack, err, ret, phase, runs, rendered >>
  /\ UNCHANGED << pvars, cvars >>

\* utils.ExecuteTemplate(variant.Data, t.template)
RaceExecute(r) ==
  /\ renders[r].pc = "idle"
  /\ renders' = [renders EXCEPT ![r].pc = "body"]
  /\ UNCHANGED includedNames
  /\ RaceFrame

\* if v, ok := includedNames[name]; ok { if v > recursionMaxNums { return error
RaceCheck(r) ==
  /\ renders[r].pc = "body"
  /\ ~renders[r].up
  /\ renders[r].nest < MaxDepth
  /\ LET ok == RaceName \in DOMAIN includedNames
         v  == Count(RaceName)
     IN renders' = [renders EXCEPT
          ![r].ok = ok,
          ![r].v = v,
          ![r].failed = ok /\ v > recursionMaxNums,
          ![r].up = ok /\ v > recursionMaxNums,
          ![r].pc = IF ok /\ v > recursionMaxNums THEN "body"
                    ELSE IF ok THEN "incload" ELSE "store1"]
  /\ UNCHANGED includedNames
  /\ RaceFrame

\* includedNames[name]++ : the load
RaceIncLoad(r) ==
  /\ renders[r].pc = "incload"
  /\ renders' = [renders EXCEPT ![r].tmp = Count(RaceName), ![r].pc = "incstore"]
  /\ UNCHANGED includedNames
  /\ RaceFrame

\* includedNames[name]++ : the store; then t.ExecuteTemplate starts
RaceIncStore(r) ==
  /\ renders[r].pc = "incstore"
  /\ includedNames' = (RaceName :> renders[r].tmp + 1) @@ includedNames
  /\ renders' = [renders EXCEPT ![r].nest = @ + 1, ![r].pc = "body"]
  /\ RaceFrame

\* includedNames[name] = 1; then t.ExecuteTemplate starts
RaceStoreOne(r) ==
  /\ renders[r].pc = "store1"
  /\ includedNames' = (RaceName :> 1) @@ includedNames
  /\ renders' = [renders EXCEPT ![r].nest = @ + 1, ![r].pc = "body"]
  /\ RaceFrame

\* t.ExecuteTemplate(&buf, name, data) returned
RaceExecuted(r) ==
  /\ renders[r].pc = "body"
  /\ renders[r].nest > 0
  /\ renders' = [renders EXCEPT ![r].up = TRUE, ![r].pc = "decload"]
  /\ UNCHANGED includedNames
  /\ RaceFrame

\* includedNames[name]-- : the load
RaceDecLoad(r) ==
  /\ renders[r].pc = "decload"
  /\ renders' = [renders EXCEPT ![r].tmp = Count(RaceName), ![r].pc = "decstore"]
  /\ UNCHANGED includedNames
  /\ RaceFrame

\* Mutant: the decrement is left out.
RaceDecStoreSkipped(r) ==
  /\ renders[r].pc = "decstore"
  /\ includedNames' = includedNames
  /\ renders' = [renders EXCEPT ![r].nest = @ - 1, ![r].pc = "body"]
  /\ RaceFrame

\* includedNames[name]-- : the store; then includeFun returns
RaceDecStore(r) ==
  /\ renders[r].pc = "decstore"
  /\ includedNames' = (RaceName :> renders[r].tmp - 1) @@ includedNames
  /\ renders' = [renders EXCEPT ![r].nest = @ - 1, ![r].pc = "body"]
  /\ RaceFrame

\* The root template's execution ended.
RaceDone(r) ==
  /\ renders[r].pc = "body"
  /\ renders[r].nest = 0
  /\ renders' = [renders EXCEPT ![r].pc = "done"]
  /\ UNCHANGED includedNames
  /\ RaceFrame

\* The position of a render that is about to write the map.
Storing(r) == renders[r].pc \in {"incstore", "store1", "decstore"}

\* Two unsynchronised writers of one Go map: besides losing an update, the
\* runtime may detect the concurrent writes and end the process.
RaceFault ==
  /\ \E r1, r2 \in Renders : r1 # r2 /\ Storing(r1) /\ Storing(r2)
  /\ renders' = [r \in Renders |-> [renders[r] EXCEPT !.pc = "fault"]]
  /\ UNCHANGED includedNames
  /\ RaceFrame

RaceNext ==
  \/ \E r \in Renders : RaceExecute(r)
  \/ \E r \in Renders : RaceCheck(r)
  \/ \E r \in Renders : RaceIncLoad(r)
  \/ \E r \in Renders : RaceIncStore(r)
  \/ \E r \in Renders : RaceStoreOne(r)
  \/ \E r \in Renders : RaceExecuted(r)
  \/ \E r \in Renders : RaceDecLoad(r)
  \/ \E r \in Renders : RaceDecStore(r)
  \/ \E r \in Renders : RaceDone(r)
  \/ RaceFault

SpecRace == RaceInit /\ [][RaceNext]_vars

\* The inclusions of RaceName entered and not yet exited, over all renders.
RaceLiveDepth ==
  LET RECURSIVE Sum(_)
      Sum(S) == IF S = {} THEN 0
                ELSE LET r == CHOOSE x \in S : TRUE
                     IN renders[r].nest + Sum(S \ {r})
  IN Sum(Renders)

RaceConsistent == Count(RaceName) = RaceLiveDepth

\* The store render r is about to make was computed from a read that a
\* store of another render has overtaken.
StaleStore(r) ==
  \/ renders[r].pc \in {"incstore", "decstore"} /\ renders[r].tmp # Count(RaceName)
  \/ renders[r].pc = "store1" /\ Count(RaceName) # 0

====
